---- MODULE Spec2Model ----
\* msa::OrderedMap<keyType, T> (src/src/ofxMSAOrderedMap.h): a std::map from key
\* to (value, index) kept next to a std::vector of keys that records the order.
\* Indices are 0-based as in the source; vector[i + 1] is the C++ _vector[i].
EXTENDS Integers, Sequences, FiniteSets, TLC

\* ---------------------------------------------------------------- bounds
MaxLen == 3          \* push_back is not called on a vector of this length

Keys == {"a", "b", "c"}
Values == {0, 1}               \* T: 0 is the value-initialised T(), 1 any other value
Indices == -1..MaxLen          \* index arguments: negative, valid, past the end

\* An absent argument or result of a call is the empty set, a present one {x}.
None == {}
Some(x) == {x}

\* T() and int(): what _map[key] value-initialises when key is absent
DefaultPair == [first |-> 0, second |-> 0]

VARIABLES
    map,        \* _map: function from the present keys to [first: T, second: int]
    vector,     \* _vector: sequence of keys
    ret         \* the last call: operation, arguments, exception, returned value

vars == <<map, vector, ret>>

\* ---------------------------------------------------------------- std containers
\* _map[k] = p
MapSet(m, k, p) == [x \in (DOMAIN m) \cup {k} |-> IF x = k THEN p ELSE m[x]]

\* _map.erase(k)
MapErase(m, k) == [x \in (DOMAIN m) \ {k} |-> m[x]]

\* _map[k] read through operator[]: a missing key is value-initialised
MapSubscript(m, k) == IF k \in DOMAIN m THEN m[k] ELSE DefaultPair

VecErase(v, i) == SubSeq(v, 1, i) \o SubSeq(v, i + 2, Len(v))

EmptyMap == [x \in {} |-> DefaultPair]

\* ---------------------------------------------------------------- private helpers
exists(m, key) == key \in DOMAIN m

\* size(): the throw is reported as ok = FALSE
sizeOk(m, v) == Cardinality(DOMAIN m) = Len(v)

validateIndex(v, index) == ~(index < 0 \/ index >= Len(v))

validateKey(m, key) == exists(m, key)

RECURSIVE updateFrom(_, _, _)
updateFrom(m, v, i) ==
    IF i >= Len(v) THEN m
    ELSE LET key == v[i + 1]
             cur == MapSubscript(m, key)
         IN  updateFrom(MapSet(m, key, [cur EXCEPT !.second = i]), v, i + 1)

\* fastErase without the renumbering pass
updateMapIndices_skipped(m, v) == m

updateMapIndices(m, v) == updateFrom(m, v, 0)

\* ---------------------------------------------------------------- call records
Call(op, index, key, newKey, val, err, out, outKey) ==
    [op |-> op, index |-> index, key |-> key, newKey |-> newKey, val |-> val,
     err |-> err, out |-> out, outKey |-> outKey]

ErrNone == "none"
ErrDuplicate == "key already exists"
ErrIndex == "index doesn't exist"
ErrKey == "key doesn't exist"
ErrSize == "map size doesn't equal vector size"
ErrRange == "out_of_range"
ErrUndefined == "undefined behaviour"

\* ---------------------------------------------------------------- operations
\* Each operation is a function of the container before the call; it yields the
\* container after the call, the exception raised (ErrNone if none) and the
\* returned value.
Outcome(m, v, err, out, outKey) ==
    [map |-> m, vector |-> v, err |-> err, out |-> out, outKey |-> outKey]

size(m, v) ==
    IF ~sizeOk(m, v)
    THEN Outcome(m, v, ErrSize, None, None)
    ELSE Outcome(m, v, ErrNone, Some(Len(v)), None)

\* push_back without the exists(key) test: an existing key is overwritten
push_back_overwrite(m, v, key, t) ==
    LET m1 == MapSet(m, key, [first |-> t, second |-> Len(v)])
        v1 == Append(v, key)
    IN  IF ~sizeOk(m1, v1)
        THEN Outcome(m1, v1, ErrSize, None, None)
        ELSE Outcome(m1, v1, ErrNone, Some(m1[key].first), None)

push_back(m, v, key, t) ==
    IF exists(m, key)
    THEN Outcome(m, v, ErrDuplicate, None, None)
    ELSE LET m1 == MapSet(m, key, [first |-> t, second |-> Len(v)])
             v1 == Append(v, key)
         IN  IF ~sizeOk(m1, v1)
             THEN Outcome(m1, v1, ErrSize, None, None)
             ELSE Outcome(m1, v1, ErrNone, Some(m1[key].first), None)

\* at(key) reading through _map[key], which inserts a value-initialised entry
atKey_subscript(m, v, key) ==
    LET m1 == MapSet(m, key, MapSubscript(m, key))
    IN  Outcome(m1, v, ErrNone, Some(m1[key].first), None)

atKey(m, v, key) ==
    IF ~validateKey(m, key)
    THEN Outcome(m, v, ErrKey, None, None)
    ELSE Outcome(m, v, ErrNone, Some(m[key].first), None)

atIndex(m, v, index) ==
    IF ~validateIndex(v, index)
    THEN Outcome(m, v, ErrIndex, None, None)
    ELSE atKey(m, v, v[index + 1])

keyFor(m, v, index) ==
    IF ~validateIndex(v, index)
    THEN Outcome(m, v, ErrIndex, None, None)
    ELSE Outcome(m, v, ErrNone, None, Some(v[index + 1]))

indexFor(m, v, key) ==
    IF ~validateKey(m, key)
    THEN Outcome(m, v, ErrKey, None, None)
    ELSE Outcome(m, v, ErrNone, Some(m[key].second), None)

\* changeKey without the _map.erase(oldKey) statement
changeKey_keepOld(m, v, oldKey, newKey) ==
    IF ~validateKey(m, oldKey)
    THEN Outcome(m, v, ErrKey, None, None)
    ELSE LET t == m[oldKey]
             m2 == MapSet(m, newKey, t)
         IN  IF t.second < 0 \/ t.second >= Len(v)
             THEN Outcome(m2, v, ErrRange, None, None)
             ELSE Outcome(m2, [v EXCEPT ![t.second + 1] = newKey],
                          ErrNone, None, None)

\* changeKey with the two map statements swapped: reinsert, then erase oldKey
changeKey_swapped(m, v, oldKey, newKey) ==
    IF ~validateKey(m, oldKey)
    THEN Outcome(m, v, ErrKey, None, None)
    ELSE LET t == m[oldKey]
             m1 == MapSet(m, newKey, t)
             m2 == MapErase(m1, oldKey)
         IN  IF t.second < 0 \/ t.second >= Len(v)
             THEN Outcome(m2, v, ErrRange, None, None)
             ELSE Outcome(m2, [v EXCEPT ![t.second + 1] = newKey],
                          ErrNone, None, None)

changeKey(m, v, oldKey, newKey) ==
    IF ~validateKey(m, oldKey)
    THEN Outcome(m, v, ErrKey, None, None)
    ELSE LET t == m[oldKey]
             m1 == MapErase(m, oldKey)
             m2 == MapSet(m1, newKey, t)
         IN  IF t.second < 0 \/ t.second >= Len(v)
             THEN Outcome(m2, v, ErrRange, None, None)
             ELSE Outcome(m2, [v EXCEPT ![t.second + 1] = newKey],
                          ErrNone, None, None)

changeKeyIndex(m, v, index, newKey) ==
    IF ~validateIndex(v, index)
    THEN Outcome(m, v, ErrIndex, None, None)
    ELSE changeKey(m, v, v[index + 1], newKey)

\* _vector.erase(begin() + index) with index outside the vector is undefined
\* behaviour; that outcome is marked ErrUndefined (NoUndefinedErase shows that
\* erase(int) and erase(key) never reach it)
fastErase(m, v, index, key) ==
    IF ~validateIndex(v, index)
    THEN Outcome(m, v, ErrUndefined, None, None)
    ELSE LET m1 == MapErase(m, key)
             v1 == VecErase(v, index)
         IN  Outcome(updateMapIndices(m1, v1), v1, ErrNone, None, None)

\* fastErase(index, key); size();   the tail shared by both erase overloads
eraseChecked(m, v, index, key) ==
    LET r == fastErase(m, v, index, key)
    IN  IF r.err = ErrNone /\ ~sizeOk(r.map, r.vector)
        THEN Outcome(r.map, r.vector, ErrSize, None, None)
        ELSE r

eraseIndex(m, v, index) ==
    IF ~validateIndex(v, index)
    THEN Outcome(m, v, ErrIndex, None, None)
    ELSE eraseChecked(m, v, index, v[index + 1])

eraseKey(m, v, key) ==
    IF ~validateKey(m, key)
    THEN Outcome(m, v, ErrKey, None, None)
    ELSE eraseChecked(m, v, m[key].second, key)

\* clear that empties the vector and forgets the map
clear_vectorOnly(m, v) == Outcome(m, <<>>, ErrNone, None, None)

clear(m, v) == Outcome(EmptyMap, <<>>, ErrNone, None, None)

\* ---------------------------------------------------------------- state machine
Init ==
    /\ map = EmptyMap
    /\ vector = <<>>
    /\ ret = Call("init", None, None, None, None, ErrNone, None, None)

Apply(r, op, index, key, newKey, val) ==
    /\ map' = r.map
    /\ vector' = r.vector
    /\ ret' = Call(op, index, key, newKey, val, r.err, r.out, r.outKey)

Size ==
    Apply(size(map, vector), "size", None, None, None, None)

PushBack ==
    \E key \in Keys, t \in Values :
        /\ exists(map, key) \/ Len(vector) < MaxLen
        /\ Apply(push_back(map, vector, key, t), "push_back", None, Some(key), None, Some(t))

AtIndex ==
    \E index \in Indices :
        Apply(atIndex(map, vector, index), "atIndex", Some(index), None, None, None)

AtKey ==
    \E key \in Keys :
        Apply(atKey(map, vector, key), "atKey", None, Some(key), None, None)

KeyFor ==
    \E index \in Indices :
        Apply(keyFor(map, vector, index), "keyFor", Some(index), None, None, None)

IndexFor ==
    \E key \in Keys :
        Apply(indexFor(map, vector, key), "indexFor", None, Some(key), None, None)

ChangeKeyIndex ==
    \E index \in Indices, newKey \in Keys :
        Apply(changeKeyIndex(map, vector, index, newKey),
              "changeKeyIndex", Some(index), None, Some(newKey), None)

ChangeKey ==
    \E oldKey \in Keys, newKey \in Keys :
        Apply(changeKey(map, vector, oldKey, newKey),
              "changeKey", None, Some(oldKey), Some(newKey), None)

EraseIndex ==
    \E index \in Indices :
        Apply(eraseIndex(map, vector, index), "eraseIndex", Some(index), None, None, None)

EraseKey ==
    \E key \in Keys :
        Apply(eraseKey(map, vector, key), "eraseKey", None, Some(key), None, None)

Clear ==
    Apply(clear(map, vector), "clear", None, None, None, None)

\* fastErase as its declaration documents it: the caller knows the index and
\* the key, i.e. key is the key stored at index
FastErase ==
    \E index \in Indices, key \in Keys :
        /\ validateIndex(vector, index)
        /\ vector[index + 1] = key
        /\ Apply(fastErase(map, vector, index, key),
                 "fastErase", Some(index), Some(key), None, None)

Next ==
    \/ Size
    \/ PushBack
    \/ AtIndex
    \/ AtKey
    \/ KeyFor
    \/ IndexFor
    \/ ChangeKeyIndex
    \/ ChangeKey
    \/ EraseIndex
    \/ EraseKey
    \/ FastErase
    \/ Clear

Spec == Init /\ [][Next]_vars

\* ---------------------------------------------------------------- observations
\* What a caller sees of the container through the public lookups.
Range(v) == {v[i] : i \in 1..Len(v)}
NoDuplicates(v) == \A i, j \in 1..Len(v) : v[i] = v[j] => i = j

\* the key that a call addressed by index resolves to, before the call
KeyAt(v, index) == IF validateIndex(v, index) THEN Some(v[index + 1]) ELSE None

IsErase(r) == r.op \in {"eraseIndex", "eraseKey"}
IsChangeKey(r) == r.op \in {"changeKeyIndex", "changeKey"}

\* the key an erase / changeKey call is aimed at, in the container (m, v)
TargetKey(m, v, r) ==
    IF r.op \in {"eraseKey", "changeKey"} THEN r.key \cap DOMAIN m
    ELSE UNION {KeyAt(v, index) : index \in r.index}

\* the position an erase call removes, in the container (m, v)
TargetIndex(m, v, r) ==
    IF r.op = "eraseIndex" THEN {index \in r.index : validateIndex(v, index)}
    ELSE UNION {indexFor(m, v, key).out : key \in r.key}

\* The erase overloads never hand vector::erase an index outside the vector,
\* and changeKey never hands vector::at one.
NoUndefinedErase == ret.err \notin {ErrUndefined, ErrRange}

\* ---------------------------------------------------------------- claims

\* C1: after any sequence of push_back, erase, changeKey and clear calls the
\* order vector and the key map form a bijection: no duplicate key in the
\* vector, the map's keys are the vector's keys, and the position recorded for
\* vector[i] is i.
C1_Bijection ==
    /\ NoDuplicates(vector)
    /\ DOMAIN map = Range(vector)
    /\ \A i \in 0..(Len(vector) - 1) :
           indexFor(map, vector, vector[i + 1]).out = Some(i)

\* C2: the key map and the order vector always have the same number of
\* elements, so size() never raises its internal error.
C2_SizeNeverThrows == Cardinality(DOMAIN map) = Len(vector)

\* the step condition of C3: what a single call must satisfy
C3_Step ==
    (IsErase(ret') /\ ret'.err = ErrNone) =>
        \A p \in TargetIndex(map, vector, ret') :
            /\ Len(vector') = Len(vector) - 1
            /\ sizeOk(map', vector')
            /\ \A q \in 0..(Len(vector) - 1) :
                 /\ q < p =>
                      /\ keyFor(map', vector', q).outKey = keyFor(map, vector, q).outKey
                      /\ atIndex(map', vector', q).out = atIndex(map, vector, q).out
                      /\ \A k \in keyFor(map, vector, q).outKey :
                             indexFor(map', vector', k).out = Some(q)
                 /\ q > p =>
                      /\ keyFor(map', vector', q - 1).outKey = keyFor(map, vector, q).outKey
                      /\ atIndex(map', vector', q - 1).out = atIndex(map, vector, q).out
                      /\ \A k \in keyFor(map, vector, q).outKey :
                             indexFor(map', vector', k).out = Some(q - 1)

\* C3: a successful erase of position p from a container of n entries leaves
\* n - 1 entries; every entry that was at q < p keeps key, value and position,
\* every entry that was at q > p has the same key and value at position q - 1.
C3_EraseShifts == [][C3_Step]_vars

\* C4: push_back with a key that already exists raises the duplicate-key error
\* and leaves the map and the vector as they were.
C4_DuplicateRejected ==
    [][ret'.op = "push_back" =>
        \A key \in ret'.key :
            exists(map, key) =>
                /\ ret'.err = ErrDuplicate
                /\ map' = map
                /\ vector' = vector
    ]_vars

\* C4 witness: a push_back of an existing key was rejected on a container
\* holding two entries.
C4_Witness ==
    /\ ret.op = "push_back"
    /\ ret.err = ErrDuplicate
    /\ ret.key \subseteq DOMAIN map
    /\ Len(vector) = 2

\* the step condition of C5: what a single call must satisfy
C5_Step ==
    ret'.op = "push_back" =>
        \A key \in ret'.key, t \in ret'.val :
            ~exists(map, key) =>
                /\ ret'.err = ErrNone
                /\ ret'.out = Some(t)
                /\ vector' = Append(vector, key)
                /\ exists(map', key)
                /\ atKey(map', vector', key).out = Some(t)
                /\ indexFor(map', vector', key).out = Some(Len(vector))
                /\ Cardinality(DOMAIN map') = Cardinality(DOMAIN map) + 1
                /\ sizeOk(map', vector')

\* C5: push_back with a key that does not exist returns the stored value after
\* appending the key as last element, recording (value, size before the call)
\* under the key and growing the size by exactly one.
C5_PushBackAppends == [][C5_Step]_vars

\* the step condition of C6: what a single call must satisfy
C6_Step ==
    \A newKey \in ret'.newKey :
        /\ ret'.op = "changeKey" =>
             \A oldKey \in ret'.key :
                 exists(map, oldKey) =>
                     /\ ret'.err = ErrNone
                     /\ atKey(map', vector', newKey).out = atKey(map, vector, oldKey).out
                     /\ indexFor(map', vector', newKey).out
                            = indexFor(map, vector, oldKey).out
        /\ ret'.op = "changeKeyIndex" =>
             \A index \in ret'.index :
                 validateIndex(vector, index) =>
                     /\ ret'.err = ErrNone
                     /\ atKey(map', vector', newKey).out = atIndex(map, vector, index).out
                     /\ indexFor(map', vector', newKey).out = Some(index)

\* C6: changeKey, by index or by old key, with an existing source succeeds and
\* afterwards at(newKey) is the value the entry held and indexFor(newKey) is
\* the position the entry held (the index argument, or indexFor(oldKey)).
C6_RenamePreserves == [][C6_Step]_vars

\* C7: changeKey to a newKey that is already the key of a different entry is
\* rejected with the duplicate-key error and changes nothing.
C7_RenameToExistingRejected ==
    [][IsChangeKey(ret') =>
        \A oldKey \in TargetKey(map, vector, ret'), newKey \in ret'.newKey :
            (exists(map, oldKey) /\ exists(map, newKey) /\ newKey # oldKey) =>
                /\ ret'.err = ErrDuplicate
                /\ map' = map
                /\ vector' = vector
    ]_vars

\* the step condition of C8: what a single call must satisfy
C8_Step ==
    ret'.err # ErrNone => (map' = map /\ vector' = vector)

\* C8: whenever a call raises an error, the container after the call is the
\* container before the call.
C8_FailureIsAtomic == [][C8_Step]_vars

\* the step condition of C9: what a single call must satisfy
C9_Step ==
    (IsErase(ret') /\ ret'.err = ErrNone) =>
        \A k \in TargetKey(map, vector, ret') :
            (ret'.op = "eraseIndex" => ret'.index = indexFor(map, vector, k).out)
                => ~exists(map', k)

\* C9: exists(k) is false right after a successful erase of key k, by
\* erase(k) or by erase(indexFor(k)).
C9_ErasedKeyGone == [][C9_Step]_vars

\* C10 as stated: a successful push_back(k, v) makes exists(k) true, and
\* exists(k) turns false only by an erase of k or by clear().
C10_OnlyEraseOrClearRemoves ==
    [][/\ (ret'.op = "push_back" /\ ret'.err = ErrNone) =>
              \A k \in ret'.key : exists(map', k)
       /\ \A k \in Keys :
              (exists(map, k) /\ ~exists(map', k)) =>
                  \/ ret'.op = "clear"
                  \/ ret'.op \in {"eraseIndex", "eraseKey", "fastErase"}
                         /\ k \in TargetKey(map, vector, ret') \cup ret'.key
    ]_vars

\* C10 amended: a successful push_back(k, v) makes exists(k) true, and
\* exists(k) turns false only by an erase of k, by clear(), or by a changeKey
\* that renames k to a different key.
C10_OnlyEraseRenameOrClearRemoves ==
    [][/\ (ret'.op = "push_back" /\ ret'.err = ErrNone) =>
              \A k \in ret'.key : exists(map', k)
       /\ \A k \in Keys :
              (exists(map, k) /\ ~exists(map', k)) =>
                  \/ ret'.op = "clear"
                  \/ ret'.op \in {"eraseIndex", "eraseKey", "fastErase"}
                         /\ k \in TargetKey(map, vector, ret') \cup ret'.key
                  \/ IsChangeKey(ret')
                         /\ k \in TargetKey(map, vector, ret')
                         /\ ret'.newKey # Some(k)
    ]_vars

\* C10 witness: a changeKey has just renamed a key away: the old key no longer
\* exists, the new one does, and another entry is still present.
C10_Witness ==
    /\ ret.op = "changeKey"
    /\ ret.err = ErrNone
    /\ ret.key # ret.newKey
    /\ \A k \in ret.key : ~exists(map, k)
    /\ \A k \in ret.newKey : exists(map, k)
    /\ Len(vector) = 2
    /\ sizeOk(map, vector)

\* ---------------------------------------------------------------- well-formed containers
\* C3, C5, C6, C8 and C9 hold for every call made on a container in which the
\* map and the vector agree; they fail only on containers that a changeKey to
\* an existing key has left inconsistent.
WellFormed == C1_Bijection /\ sizeOk(map, vector)

C3_WhenWellFormed == [][WellFormed => C3_Step]_vars
C5_WhenWellFormed == [][WellFormed => C5_Step]_vars
C6_WhenWellFormed == [][WellFormed => C6_Step]_vars
C8_WhenWellFormed == [][WellFormed => C8_Step]_vars
C9_WhenWellFormed == [][WellFormed => C9_Step]_vars
\* ---------------------------------------------------------------- claims C11..C19

\* The entries of the map that a call leaves in the map, and the key each one
\* has afterwards: an erase ends the entry under its target key, a changeKey
\* moves the entry under oldKey to newKey and ends an entry already under a
\* different newKey. (A key that updateMapIndices creates is no earlier entry.)
IsAnyErase(r) == r.op \in {"eraseIndex", "eraseKey", "fastErase"}

Ended(m, v, r) ==
    IF IsAnyErase(r) THEN TargetKey(m, v, r) \cup r.key
    ELSE IF IsChangeKey(r) /\ TargetKey(m, v, r) \cap DOMAIN m # {}
    THEN r.newKey \ TargetKey(m, v, r)
    ELSE IF r.op = "clear" THEN DOMAIN m
    ELSE {}

KeyAfter(m, v, r, k) ==
    IF IsChangeKey(r) /\ k \in TargetKey(m, v, r)
    THEN CHOOSE n \in r.newKey : TRUE
    ELSE k

Survivors(m, v, r, m2) ==
    {k \in DOMAIN m : k \notin Ended(m, v, r) /\ KeyAfter(m, v, r, k) \in DOMAIN m2}

\* what C11 asks of one call: a push_back that stores an entry gives it an
\* index above the index of every entry already stored, and the call does not
\* change which of two surviving entries has the smaller index (a renamed
\* entry is followed to its new key); whenever size() returns, the index of a
\* surviving entry is the position at which enumeration by index finds its key.
C11_Step ==
    /\ (ret'.op = "push_back" /\ ret'.err # ErrDuplicate) =>
           \A key \in ret'.key, k \in DOMAIN map :
               map'[k].second < map'[key].second
    /\ \A k1, k2 \in Survivors(map, vector, ret', map') :
           map[k1].second < map[k2].second =>
               map'[KeyAfter(map, vector, ret', k1)].second
                   < map'[KeyAfter(map, vector, ret', k2)].second
    /\ sizeOk(map', vector') =>
           \A k \in Survivors(map, vector, ret', map') :
               keyFor(map', vector', map'[KeyAfter(map, vector, ret', k)].second).outKey
                   = Some(KeyAfter(map, vector, ret', k))

\* C11: insertion order is preserved: of two live entries the one pushed
\* earlier has the smaller index, and erase and changeKey never reorder the
\* surviving entries.
C11_InsertionOrder == [][C11_Step]_vars

\* A container filled to MaxLen entries takes one more push_back: the
\* containers of Spec and those one entry longer.
PushBackFull ==
    \E key \in Keys, t \in Values :
        /\ ~exists(map, key)
        /\ Len(vector) = MaxLen
        /\ Apply(push_back(map, vector, key, t), "push_back", None, Some(key), None, Some(t))

NextLong ==
    \/ Next
    \/ PushBackFull

SpecLong == Init /\ [][NextLong]_vars

\* C12: clear() raises no error; size() called right after it returns 0 and
\* exists(k) is false for every key that was present before the clear.
C12_ClearEmpties ==
    [][ret'.op = "clear" =>
        /\ ret'.err = ErrNone
        /\ size(map', vector').err = ErrNone
        /\ size(map', vector').out = Some(0)
        /\ \A k \in DOMAIN map : ~exists(map', k)
    ]_vars

\* C12 witness: clear() has run and the container is empty.
C12_Witness ==
    /\ ret.op = "clear"
    /\ ret.err = ErrNone
    /\ vector = <<>>
    /\ DOMAIN map = {}

\* C13: at(index) raises the index error for every index outside the vector
\* (negative or >= its length) and at(key) raises the key error for every
\* absent key; the failed access returns no value and creates no entry.
C13_AtRejectsMissing ==
    [][/\ ret'.op = "atIndex" =>
              \A index \in ret'.index :
                  (index < 0 \/ index >= Len(vector)) =>
                      /\ ret'.err = ErrIndex
                      /\ ret'.out = None
                      /\ map' = map
                      /\ vector' = vector
       /\ ret'.op = "atKey" =>
              \A key \in ret'.key :
                  ~exists(map, key) =>
                      /\ ret'.err = ErrKey
                      /\ ret'.out = None
                      /\ map' = map
                      /\ vector' = vector
    ]_vars

\* C13 witness: at(key) was rejected for an absent key on a container that
\* holds entries.
C13_Witness ==
    /\ ret.op = "atKey"
    /\ ret.err = ErrKey
    /\ ret.key \cap DOMAIN map = {}
    /\ Len(vector) = 2

\* C14: keyFor(index) returns a blank key for an index that does not exist and
\* indexFor(key) returns a negative index for a key that does not exist;
\* neither raises an error.
C14_LookupsFallBack ==
    [][/\ ret'.op = "keyFor" =>
              \A index \in ret'.index :
                  ~validateIndex(vector, index) =>
                      ret'.err = ErrNone /\ ret'.outKey = Some("")
       /\ ret'.op = "indexFor" =>
              \A key \in ret'.key :
                  ~exists(map, key) =>
                      /\ ret'.err = ErrNone
                      /\ ret'.out # None
                      /\ \A i \in ret'.out : i < 0
    ]_vars
\* C15: when key is the key stored at index (key == keyFor(index)) and the key
\* exists, erase(index), erase(key) and fastErase(index, key) leave the same
\* container: same vector, same values, same positions.
C15_EraseVariantsAgree ==
    \A index \in Indices, key \in Keys :
        (keyFor(map, vector, index).outKey = Some(key) /\ exists(map, key)) =>
            LET byIndex == eraseIndex(map, vector, index)
                byKey == eraseKey(map, vector, key)
                fast == fastErase(map, vector, index, key)
            IN  /\ byIndex.map = byKey.map
                /\ byIndex.vector = byKey.vector
                /\ byIndex.map = fast.map
                /\ byIndex.vector = fast.vector
\* ---------------------------------------------------------------- the example's tester
\* ofApp::tester (src/example-orderedmap/src/example-orderedmap.cpp): the calls
\* it makes that change the container, in its order; the record of the last
\* call tells how far the tester has come. The Data objects behind the four
\* shared_ptr values are arbitrary.
TesterValues == {37, 27, 2, 3}

TesterPushMemo ==
    \E t \in TesterValues :
        /\ ret.op = "init"
        /\ ret.key = None
        /\ Apply(push_back(map, vector, "memo", t),
                 "push_back", None, Some("memo"), None, Some(t))

TesterPushJane ==
    \E t \in TesterValues :
        /\ ret.op = "push_back"
        /\ ret.key = Some("memo")
        /\ Apply(push_back(map, vector, "jane", t),
                 "push_back", None, Some("jane"), None, Some(t))

TesterPushPearl ==
    \E t \in TesterValues :
        /\ ret.op = "push_back"
        /\ ret.key = Some("jane")
        /\ Apply(push_back(map, vector, "pearl", t),
                 "push_back", None, Some("pearl"), None, Some(t))

TesterPushBruce ==
    \E t \in TesterValues :
        /\ ret.op = "push_back"
        /\ ret.key = Some("pearl")
        /\ Apply(push_back(map, vector, "bruce", t),
                 "push_back", None, Some("bruce"), None, Some(t))

TesterEraseJane ==
    /\ ret.op = "push_back"
    /\ ret.key = Some("bruce")
    /\ Apply(eraseIndex(map, vector, 1), "eraseIndex", Some(1), None, None, None)

TesterEraseBruce ==
    /\ ret.op = "eraseIndex"
    /\ Apply(eraseKey(map, vector, "bruce"), "eraseKey", None, Some("bruce"), None, None)

TesterRenameMemo ==
    /\ ret.op = "eraseKey"
    /\ Apply(changeKeyIndex(map, vector, 0, "mehmet"),
             "changeKeyIndex", Some(0), None, Some("mehmet"), None)

TesterRenamePearl ==
    /\ ret.op = "changeKeyIndex"
    /\ Apply(changeKey(map, vector, "pearl", "pearlikens"),
             "changeKey", None, Some("pearl"), Some("pearlikens"), None)

TesterNext ==
    \/ TesterPushMemo
    \/ TesterPushJane
    \/ TesterPushPearl
    \/ TesterPushBruce
    \/ TesterEraseJane
    \/ TesterEraseBruce
    \/ TesterRenameMemo
    \/ TesterRenamePearl

SpecTester == Init /\ [][TesterNext]_vars

\* the keys keyFor(0), keyFor(1), ... returns on the container (m, v), up to
\* the first index it rejects
KeysByIndex(m, v) ==
    [i \in 1..Len(v) |-> keyFor(m, v, i - 1).outKey]

\* at(key) gives after the call what it gave before, for the listed keys
SameValues(ks) ==
    \A k \in ks : /\ atKey(map', vector', k).out = atKey(map, vector, k).out
                  /\ atKey(map, vector, k).err = ErrNone

\* C16: the documented scenario, step by step. After the four push_back calls
\* keyFor(0..3) is memo, jane, pearl, bruce and indexFor(pearl) is 2; erase(1)
\* leaves memo, pearl, bruce with indexFor(bruce) 2; erase("bruce") leaves
\* memo, pearl; changeKey(0, "mehmet") and changeKey("pearl", "pearlikens")
\* give keyFor(0) mehmet and keyFor(1) pearlikens, and every surviving value
\* is the one pushed.
C16_DocumentedScenario ==
    [][/\ ret'.err = ErrNone
       /\ ret'.op = "push_back" =>
              /\ \A k \in ret'.key : atKey(map', vector', k).out = ret'.val
              /\ SameValues(DOMAIN map)
       /\ (ret'.op = "push_back" /\ ret'.key = Some("bruce")) =>
              /\ KeysByIndex(map', vector')
                     = <<Some("memo"), Some("jane"), Some("pearl"), Some("bruce")>>
              /\ indexFor(map', vector', "pearl").out = Some(2)
       /\ ret'.op = "eraseIndex" =>
              /\ KeysByIndex(map', vector')
                     = <<Some("memo"), Some("pearl"), Some("bruce")>>
              /\ indexFor(map', vector', "bruce").out = Some(2)
              /\ SameValues({"memo", "pearl", "bruce"})
       /\ ret'.op = "eraseKey" =>
              /\ KeysByIndex(map', vector') = <<Some("memo"), Some("pearl")>>
              /\ indexFor(map', vector', "memo").out = Some(0)
              /\ indexFor(map', vector', "pearl").out = Some(1)
              /\ SameValues({"memo", "pearl"})
       /\ ret'.op = "changeKeyIndex" =>
              /\ KeysByIndex(map', vector') = <<Some("mehmet"), Some("pearl")>>
              /\ atKey(map', vector', "mehmet").out = atKey(map, vector, "memo").out
              /\ atIndex(map', vector', 0).out = atIndex(map, vector, 0).out
              /\ SameValues({"pearl"})
       /\ ret'.op = "changeKey" =>
              /\ KeysByIndex(map', vector') = <<Some("mehmet"), Some("pearlikens")>>
              /\ atKey(map', vector', "pearlikens").out = atKey(map, vector, "pearl").out
              /\ atIndex(map', vector', 1).out = atIndex(map, vector, 1).out
              /\ atIndex(map', vector', 1).err = ErrNone
              /\ SameValues({"mehmet"})
    ]_vars

\* C16 witness: the tester has made its last call; memo's entry, pushed with
\* 37, and pearl's, pushed with 2, are under the new keys at positions 0, 1.
C16_Witness ==
    /\ ret.op = "changeKey"
    /\ ret.newKey = Some("pearlikens")
    /\ vector = <<"mehmet", "pearlikens">>
    /\ atIndex(map, vector, 0).out = Some(37)
    /\ atIndex(map, vector, 1).out = Some(2)

\* what an erase call may do to the key map: drop entries and rewrite positions
C17_Step ==
    IsErase(ret') =>
        \A k \in DOMAIN map' : /\ k \in DOMAIN map
                               /\ map'[k].first = map[k].first

\* C17: erase(index) and erase(key) never add or rewrite an entry: every key
\* in the key map after the erase was in it before and maps to the same value.
C17_EraseAddsNothing == [][C17_Step]_vars

\* the old keys of a changeKey call that renames a present key to an absent one
RenamedKey(m, v, r) ==
    IF IsChangeKey(r) /\ r.newKey \cap DOMAIN m = {}
    THEN TargetKey(m, v, r) \cap DOMAIN m
    ELSE {}

\* C18: changeKey(oldKey, newKey) with oldKey present and newKey absent leaves
\* size() unchanged and every other entry unchanged in key, value and
\* position; afterwards exists(oldKey) is false and exists(newKey) is true.
C18_RenameFrame ==
    [][\A old \in RenamedKey(map, vector, ret') : \A new \in ret'.newKey :
           /\ ret'.err = ErrNone
           /\ size(map', vector').out = size(map, vector).out
           /\ size(map', vector').err = size(map, vector).err
           /\ Len(vector') = Len(vector)
           /\ \A k \in DOMAIN map \ {old} : k \in DOMAIN map' /\ map'[k] = map[k]
           /\ DOMAIN map' \subseteq (DOMAIN map \ {old}) \cup {new}
           /\ \A i \in 1..Len(vector) :
                  i # map[old].second + 1 => vector'[i] = vector[i]
           /\ ~exists(map', old)
           /\ exists(map', new)
    ]_vars

\* C18 witness: a rename of a present key to an absent one in a container of
\* two entries
C18_Witness ==
    /\ ret.op = "changeKey"
    /\ ret.err = ErrNone
    /\ ret.key # ret.newKey
    /\ Len(vector) = 2
    /\ WellFormed
    /\ \A k \in ret.key : ~exists(map, k)
    /\ \A n \in ret.newKey : exists(map, n)

\* the calls that rename an existing key to itself: changeKey(k, k), and
\* changeKey(index, k) where index is what indexFor(k) returns
IsSelfRename(m, v, r) ==
    \/ r.op = "changeKey" /\ r.key = r.newKey /\ r.key \subseteq DOMAIN m
    \/ /\ r.op = "changeKeyIndex"
       /\ r.newKey \subseteq DOMAIN m
       /\ \A k \in r.newKey : indexFor(m, v, k).out = r.index

\* C19: renaming an existing key to itself changes nothing: changeKey(k, k)
\* and changeKey(indexFor(k), k) leave the key map and the key list as they
\* were, and throw nothing.
C19_SelfRenameNoOp ==
    [][IsSelfRename(map, vector, ret') =>
           /\ ret'.err = ErrNone
           /\ map' = map
           /\ vector' = vector
    ]_vars

\* C19 witness: a self-rename has run on a container of two entries
C19_Witness ==
    /\ ret.op = "changeKey"
    /\ ret.key = ret.newKey
    /\ ret.err = ErrNone
    /\ Len(vector) = 2
    /\ WellFormed

\* C19 witness for the index overload
C19_WitnessIndex ==
    /\ ret.op = "changeKeyIndex"
    /\ ret.err = ErrNone
    /\ Len(vector) = 2
    /\ WellFormed
    /\ \A k \in ret.newKey : indexFor(map, vector, k).out = ret.index

\* The same holds for C11, C15 and C17: where the key map and the key list
\* agree, the three erase calls coincide, an erase adds and rewrites no entry,
\* and no call reorders the surviving entries.
C15_WhenWellFormed == WellFormed => C15_EraseVariantsAgree
C17_WhenWellFormed == [][WellFormed => C17_Step]_vars
C11_WhenWellFormed == [][WellFormed => C11_Step]_vars

====
